---- MODULE Spec2Model ----
(***************************************************************************)
(* Model of the NLP visualiser web application (src/app.py and             *)
(* src/services/fetchers.py).                                              *)
(*                                                                         *)
(* Text is a sequence of one-character strings; a token is such a sequence *)
(* too, and a token sequence is a sequence of tokens.  The state is what   *)
(* the last handled request left behind: the request, the outcome of the   *)
(* collaborators it called, the calls it made in order, the analysis and   *)
(* what was rendered.                                                      *)
(*                                                                         *)
(* services/processor.py, services/steps.py and services/metrics.py are    *)
(* imported by app.py but are not part of the available source; their      *)
(* operators below follow sections 4.1 and 4.2 of the specification.       *)
(***************************************************************************)
EXTENDS Integers, Sequences, FiniteSets, TLC

\* ------------------------------------------------------------------ bounds

\* Longest enumerated text (pasted text, example file content).
MaxLen == 3

\* Number of distinct words of the long text (more than the chart's cap).
NumLongWords == 51

\* ------------------------------------------------------- program constants

\* n of get_most_frequent_words in analyze.
TopN == 50

\* Python's None, for a value that is otherwise a text.
None == <<"<None>">>

\* Python's None, for a value that is otherwise a str kept abstract.
NoneStr == "<None>"

APP_NAME == "NLP visualiser"

\* --------------------------------------------------------------- characters

LowerLetters == <<"a","b","c","d","e","f","g","h","i","j","k","l","m",
                  "n","o","p","q","r","s","t","u","v","w","x","y","z">>

UpperLetters == <<"A","B","C","D","E","F","G","H","I","J","K","L","M",
                  "N","O","P","Q","R","S","T","U","V","W","X","Y","Z">>

Range(s) == {s[i] : i \in DOMAIN s}

\* A function on 1..n as the sequence it is, its elements computed once.
AsSeq(f) == SubSeq(f, 1, Len(f))

IsUpper(c) == c \in Range(UpperLetters)

IsAlphaChar(c) == c \in Range(LowerLetters) \cup Range(UpperLetters)

IsSpaceChar(c) == c \in {" ", "\n", "\t"}

IsPunctChar(c) == c \in {".", ",", "!", "?", ":", ";", "'", "-", "(", ")", "[", "]"}

\* str.lower() on one character.
LowerChar(c) ==
    IF IsUpper(c)
    THEN LowerLetters[CHOOSE i \in DOMAIN UpperLetters : UpperLetters[i] = c]
    ELSE c

\* str.lower()
Lower(s) == AsSeq([i \in DOMAIN s |-> LowerChar(s[i])])

RECURSIVE LStrip(_)
LStrip(s) ==
    IF s # <<>> /\ IsSpaceChar(Head(s)) THEN LStrip(Tail(s)) ELSE s

RECURSIVE RStrip(_)
RStrip(s) ==
    IF s # <<>> /\ IsSpaceChar(s[Len(s)])
    THEN RStrip(SubSeq(s, 1, Len(s) - 1))
    ELSE s

\* str.strip()
Strip(s) == RStrip(LStrip(s))

\* str.split(sep) for a one-character separator: never an empty list.
RECURSIVE SplitOn(_, _)
SplitOn(sep, s) ==
    IF \A i \in DOMAIN s : s[i] # sep
    THEN <<s>>
    ELSE LET k == CHOOSE i \in DOMAIN s :
                      s[i] = sep /\ \A j \in 1..(i - 1) : s[j] # sep
         IN  <<SubSeq(s, 1, k - 1)>> \o SplitOn(sep, SubSeq(s, k + 1, Len(s)))

\* ------------------------------------------- step library (services/steps)

\* The positions of s, in increasing order.
Indices(s) == AsSeq([i \in DOMAIN s |-> i])

\* Variant: text.split(' '), which yields [''] for the empty text.
tokenize_step_SplitSpace(text) == SplitOn(" ", text)

\* Tokenize: the maximal runs of non-whitespace characters, in order.
tokenize_step(text) ==
    LET IsStart(i) == /\ ~IsSpaceChar(text[i])
                      /\ (i = 1 \/ IsSpaceChar(text[i - 1]))
        IsEnd(i) == /\ ~IsSpaceChar(text[i])
                    /\ (i = Len(text) \/ IsSpaceChar(text[i + 1]))
        starts == SelectSeq(Indices(text), IsStart)
        ends == SelectSeq(Indices(text), IsEnd)
    IN  AsSeq([k \in DOMAIN starts |-> SubSeq(text, starts[k], ends[k])])

StripPunct(tok) == SelectSeq(tok, LAMBDA c : ~IsPunctChar(c))

\* Strip punctuation from each token; drop the tokens left empty.
remove_punctuation_step(words) ==
    SelectSeq(AsSeq([i \in DOMAIN words |-> StripPunct(words[i])]),
              LAMBDA w : w # <<>>)

\* str.isalpha(): non-empty and alphabetic throughout.
IsAlpha(tok) == tok # <<>> /\ \A i \in DOMAIN tok : IsAlphaChar(tok[i])

filter_alpha_step(words) == SelectSeq(words, IsAlpha)

lowercase_step(words) == AsSeq([i \in DOMAIN words |-> Lower(words[i])])

\* The fixed stop-word set (a sample of it: an article each).
STOP_WORDS == {<<"a">>, <<"t","h","e">>}

remove_stop_words_step(words) == SelectSeq(words, LAMBDA w : w \notin STOP_WORDS)

\* The words to drop: each excluded word trimmed and lowercased.
ExcludedSet(exclude) == {Lower(Strip(exclude[i])) : i \in DOMAIN exclude}

\* create_exclusion_step(words)(tokens)
exclusion_step(exclude, words) ==
    LET excluded == ExcludedSet(exclude)
    IN  SelectSeq(words, LAMBDA w : Lower(w) \notin excluded)

\* ------------------------------------------------- build_pipeline (app.py)

\* One (label, function) pair of the step list; words is the parameter of
\* the closure create_exclusion_step returns, empty for every other step.
Step(label, fn, words) == [label |-> label, fn |-> fn, words |-> words]

\* The truth value of a str: non-empty.
Truthy(s) == s # <<>>

\* Variant: the excluded words split on spaces.
SplitWords_OnSpace(s) == SplitOn(" ", s)

\* options['words_to_exclude'].split(',')
SplitWords(s) == SplitOn(",", s)

PunctSteps(options) ==
    IF options.remove_punctuation
    THEN <<Step("cleaned_punct", "remove_punctuation_step", <<>>)>>
    ELSE <<>>

AlphaSteps(options) ==
    IF options.filter_alpha
    THEN <<Step("cleaned_alpha", "filter_alpha_step", <<>>)>>
    ELSE <<>>

CaseSteps(options) ==
    IF ~options.case_sensitive
    THEN <<Step("normalized", "lowercase_step", <<>>)>>
    ELSE <<>>

StopWordSteps(options) ==
    IF options.remove_stop_words
    THEN <<Step("after_stop_words", "remove_stop_words_step", <<>>)>>
    ELSE <<>>

\* Variant: no identity step when nothing is excluded.
FinalSteps_NoElse(options) ==
    IF Truthy(options.words_to_exclude)
    THEN <<Step("final", "exclusion_step", SplitWords(options.words_to_exclude))>>
    ELSE <<>>

\* The last step, always labelled final.
FinalSteps(options) ==
    IF Truthy(options.words_to_exclude)
    THEN <<Step("final", "exclusion_step", SplitWords(options.words_to_exclude))>>
    ELSE <<Step("final", "identity", <<>>)>>

\* Variant: the lowercase step ahead of the two cleaning steps.
build_pipeline_CaseFirst(options) ==
    <<Step("raw", "tokenize_step", <<>>)>>
        \o CaseSteps(options)
        \o PunctSteps(options)
        \o AlphaSteps(options)
        \o <<Step("before_stop_words", "identity", <<>>)>>
        \o StopWordSteps(options)
        \o FinalSteps(options)

\* Variant: the before_stop_words snapshot taken after stop-word removal.
build_pipeline_LateSnapshot(options) ==
    <<Step("raw", "tokenize_step", <<>>)>>
        \o PunctSteps(options)
        \o AlphaSteps(options)
        \o CaseSteps(options)
        \o StopWordSteps(options)
        \o <<Step("before_stop_words", "identity", <<>>)>>
        \o FinalSteps(options)

\* build_pipeline(options): the steps in the order the code appends them.
build_pipeline(options) ==
    <<Step("raw", "tokenize_step", <<>>)>>
        \o PunctSteps(options)
        \o AlphaSteps(options)
        \o CaseSteps(options)
        \o <<Step("before_stop_words", "identity", <<>>)>>
        \o StopWordSteps(options)
        \o FinalSteps(options)

\* ------------------------------------------- run_pipeline (services/processor)

\* The step's function applied to the running value.
ApplyStep(step, x) ==
    CASE step.fn = "tokenize_step" -> tokenize_step(x)
      [] step.fn = "remove_punctuation_step" -> remove_punctuation_step(x)
      [] step.fn = "filter_alpha_step" -> filter_alpha_step(x)
      [] step.fn = "lowercase_step" -> lowercase_step(x)
      [] step.fn = "remove_stop_words_step" -> remove_stop_words_step(x)
      [] step.fn = "exclusion_step" -> exclusion_step(step.words, x)
      [] step.fn = "identity" -> x

\* The steps run in order from `current`, each result stored under the
\* step's label (a later equal label replaces the earlier entry).
RECURSIVE RunFrom(_, _, _)
RunFrom(steps, current, snapshots) ==
    IF steps = <<>>
    THEN [final |-> current, snapshots |-> snapshots]
    ELSE LET out == ApplyStep(Head(steps), current)
         IN  RunFrom(Tail(steps), out,
                     (Head(steps).label :> out) @@ snapshots)

\* run_pipeline(text, steps) -> (final_sequence, snapshots)
run_pipeline(text, steps) == RunFrom(steps, text, <<>>)

\* ---------------------------------------------- metrics (services/metrics)

get_word_count(words) == Len(words)

get_unique_word_count(words) == Cardinality(Range(words))

get_character_count(text) == Len(text)

get_character_count_no_spaces(text) ==
    Cardinality({i \in DOMAIN text : ~IsSpaceChar(text[i])})

\* The distinct words in order of first occurrence.
Distinct(words) ==
    LET IsFirst(i) == \A j \in 1..(i - 1) : words[j] # words[i]
        firsts == SelectSeq(Indices(words), IsFirst)
    IN  AsSeq([k \in DOMAIN firsts |-> words[firsts[k]]])

Occurrences(w, words) == Cardinality({i \in DOMAIN words : words[i] = w})

\* The frequency table, (word, count) pairs in order of first occurrence.
Counter(words) ==
    LET d == Distinct(words)
    IN  AsSeq([i \in DOMAIN d |->
                  [word |-> d[i], count |-> Occurrences(d[i], words)]])

\* Stable sort by descending count: ties stay in first-occurrence order.
\* Entry i lands behind the entries with a larger count and the earlier
\* entries with an equal one.
SortByCount(table) ==
    LET place == AsSeq([i \in DOMAIN table |->
                     1 + Cardinality({j \in DOMAIN table :
                            \/ table[j].count > table[i].count
                            \/ table[j].count = table[i].count /\ j < i})])
    IN  AsSeq([p \in DOMAIN table |->
                  table[CHOOSE i \in DOMAIN table : place[i] = p]])

get_most_frequent_words(words, n) ==
    LET ranked == SortByCount(Counter(words))
    IN  IF n <= 0
        THEN <<>>
        ELSE SubSeq(ranked, 1, IF n < Len(ranked) THEN n ELSE Len(ranked))

get_zipf_data(words) ==
    LET ranked == SortByCount(Counter(words))
    IN  AsSeq([i \in DOMAIN ranked |->
                  [rank |-> i, frequency |-> ranked[i].count]])

\* ------------------------------------------------------- analyze (app.py)

\* dict.get(key, [])
Get(snapshots, key) ==
    IF key \in DOMAIN snapshots THEN snapshots[key] ELSE <<>>

\* Variant: n left out, every distinct word listed.
ChartSeries_Uncapped(words) == get_most_frequent_words(words, Len(words))

\* get_most_frequent_words(<snapshot>, n=50)
ChartSeries(words) == get_most_frequent_words(words, TopN)

\* Variant: both series read from before_stop_words.
ZipfData_BothBefore(snapshots) ==
    [before |-> get_zipf_data(Get(snapshots, "before_stop_words")),
     after |-> get_zipf_data(Get(snapshots, "before_stop_words"))]

\* The zipf_data entry of the result.
ZipfData(snapshots) ==
    [before |-> get_zipf_data(Get(snapshots, "before_stop_words")),
     after |-> get_zipf_data(Get(snapshots, "final"))]

\* Variant: the word counts taken from the before_stop_words snapshot.
Counts_FromBefore(content, processed_words, snapshots) ==
    [word_count |-> get_word_count(Get(snapshots, "before_stop_words")),
     unique_word_count |->
         get_unique_word_count(Get(snapshots, "before_stop_words")),
     char_count |-> get_character_count(content),
     char_count_no_spaces |-> get_character_count_no_spaces(content)]

\* The four counts of the result.
Counts(content, processed_words, snapshots) ==
    [word_count |-> get_word_count(processed_words),
     unique_word_count |-> get_unique_word_count(processed_words),
     char_count |-> get_character_count(content),
     char_count_no_spaces |-> get_character_count_no_spaces(content)]

\* analyze(content, options): the returned record (counts, chart_data,
\* zipf_data) with the locals it was computed from, and the keys for which
\* snapshots.get fell back to its default.
analyze(content, options) ==
    LET steps == build_pipeline(options)
        run == run_pipeline(content, steps)
        processed_words == run.final
        snapshots == run.snapshots
    IN  [steps |-> steps,
         processed_words |-> processed_words,
         snapshots |-> snapshots,
         fell_back |-> {"before_stop_words", "final"} \ DOMAIN snapshots,
         counts |-> Counts(content, processed_words, snapshots),
         chart_data |->
             [before |-> ChartSeries(Get(snapshots, "before_stop_words")),
              after |-> ChartSeries(Get(snapshots, "final"))],
         zipf_data |-> ZipfData(snapshots)]

\* ------------------------------------------------------------ fetchers.py

IsValueError(kind) == kind \in {"ValueError", "JSONDecodeError"}

\* requests.RequestException and its subclasses (requests' JSONDecodeError
\* is one, and a ValueError too).
IsRequestException(kind) ==
    kind \in {"HTTPError", "ConnectionError", "JSONDecodeError"}

Returned(value) == [raised |-> NoneStr, message |-> NoneStr, value |-> value]

Raised(kind, message) == [raised |-> kind, message |-> message, value |-> None]

\* fetch_gutenberg(bookid) against the archive's response.
fetch_gutenberg(bookid, response) ==
    CASE response.kind = "connection_error" ->
             Raised("ConnectionError", "connection failed")
      [] response.kind = "http_error" ->
             Raised("HTTPError", "404 Not Found")
      [] OTHER -> Returned(response.text)

\* Variant: the page id "-1" is not looked at.
fetch_wiki_NoMissingCheck(title, response) ==
    CASE response.kind = "connection_error" ->
             Raised("ConnectionError", "connection failed")
      [] response.kind = "http_error" ->
             Raised("HTTPError", "503 Service Unavailable")
      [] response.kind = "bad_json" ->
             Raised("JSONDecodeError", "Expecting value")
      [] OTHER ->
             IF response.pages = <<>>
             THEN Raised("ValueError", "Wikipedia article not found")
             ELSE LET page == Head(response.pages)
                  IN  Returned(IF page.has_extract THEN page.extract ELSE <<>>)

\* fetch_wiki(title) against the encyclopedia's response: the first page of
\* the answer decides.
fetch_wiki(title, response) ==
    CASE response.kind = "connection_error" ->
             Raised("ConnectionError", "connection failed")
      [] response.kind = "http_error" ->
             Raised("HTTPError", "503 Service Unavailable")
      [] response.kind = "bad_json" ->
             Raised("JSONDecodeError", "Expecting value")
      [] OTHER ->
             IF response.pages = <<>>
             THEN Raised("ValueError", "Wikipedia article not found")
             ELSE LET page == Head(response.pages)
                  IN  IF page.page_id = "-1"
                      THEN Raised("ValueError", "Wikipedia article not found")
                      ELSE Returned(IF page.has_extract
                                    THEN page.extract
                                    ELSE <<>>)

\* ----------------------------------------------------- request handling

DEFAULT_OPTIONS ==
    [remove_punctuation |-> TRUE,
     filter_alpha |-> FALSE,
     case_sensitive |-> FALSE,
     remove_stop_words |-> FALSE,
     words_to_exclude |-> <<>>]

\* data.get(key, default) for a text field.
GetText(data, key, default) == IF data[key] = None THEN default ELSE data[key]

parse_options(data) ==
    [remove_punctuation |-> data.remove_punctuation = "on",
     filter_alpha |-> data.filter_alpha = "on",
     case_sensitive |-> data.case_sensitive = "on",
     remove_stop_words |-> data.remove_stop_words = "on",
     words_to_exclude |-> GetText(data, "words_to_exclude", <<>>)]

\* fetch_content(source, form) -> (content, error_message)
fetch_content(source, form, response) ==
    IF source = "Gutenberg"
    THEN LET r == fetch_gutenberg(form.gutenberg_id, response)
         IN  IF r.raised = "HTTPError"
             THEN [content |-> None, error |-> "Book not found: 404 Not Found"]
             ELSE IF IsRequestException(r.raised)
             THEN [content |-> None,
                   error |-> "Network error. Please try again."]
             ELSE [content |-> r.value, error |-> NoneStr]
    ELSE IF source = "Wikipedia"
    THEN LET r == fetch_wiki(form.wiki_query, response)
         IN  IF IsValueError(r.raised)
             THEN [content |-> None, error |-> r.message]
             ELSE IF IsRequestException(r.raised)
             THEN [content |-> None,
                   error |-> "Network error fetching Wikipedia article. Please try again."]
             ELSE [content |-> r.value, error |-> NoneStr]
    ELSE [content |-> GetText(form, "content", <<>>), error |-> NoneStr]

\* `if error:`
ErrorTruthy(error) == error # NoneStr /\ error # ""

\* "Error reading file: "
ErrorPrefix ==
    <<"E","r","r","o","r"," ","r","e","a","d","i","n","g"," ",
      "f","i","l","e",":"," ">>

\* Variant: a failed read leaves content empty.
ReadContent_Blank(selected_file, read) ==
    IF selected_file # NoneStr /\ selected_file # "" /\ read.ok
    THEN read.text
    ELSE <<>>

\* The content the examples route analyses: "" without a selected file,
\* the file's text, or the error string when reading it raised.
ReadContent(selected_file, read) ==
    IF selected_file # NoneStr /\ selected_file # ""
    THEN IF read.ok THEN read.text ELSE ErrorPrefix \o read.message
    ELSE <<>>

\* ------------------------------------------------------------------ inputs

\* A stop word's letter, its capital, a punctuation mark and a space.
SmallAlphabet == {"a", "A", ".", " "}

\* "The cat sat. The dog sat!"
ScenarioText ==
    <<"T","h","e"," ","c","a","t"," ","s","a","t","."," ",
      "T","h","e"," ","d","o","g"," ","s","a","t","!">>

\* "the, sat"
ScenarioExclude == <<"t","h","e",","," ","s","a","t">>

\* The i-th of the long text's words: two letters, distinct for distinct i.
LongWord(i) ==
    <<LowerLetters[((i - 1) \div 7) + 2], LowerLetters[((i - 1) % 7) + 2]>>

\* The first n of them, each followed by a space.
LongWords(n) ==
    AsSeq([p \in 1..(3 * n) |->
              IF (p - 1) % 3 = 2
              THEN " "
              ELSE LongWord(((p - 1) \div 3) + 1)[((p - 1) % 3) + 1]])

\* NumLongWords distinct words, then the third twice more and the second
\* once more.
LongText ==
    LongWords(NumLongWords) \o LongWord(3) \o <<" ">> \o LongWord(3)
        \o <<" ">> \o LongWord(2)

EnumTexts(n) == UNION {[1..k -> SmallAlphabet] : k \in 0..n}

Texts == EnumTexts(MaxLen)

\* "a. A aa a"
MixedText == <<"a", ".", " ", "A", " ", "a", "a", " ", "a">>

LongTexts == {ScenarioText, MixedText, LongText}

\* absent, "A" and "aa, A"
ExcludeInputs == {None, <<"A">>, <<"a", "a", ",", " ", "A">>}

\* also "", " ", "the, sat" and "cd,BC,"
LongExcludeInputs ==
    ExcludeInputs
        \cup {<<>>, <<" ">>, ScenarioExclude, <<"c", "d", ",", "B", "C", ",">>}

FlagInputs == {"on", NoneStr}

OptionFieldsWith(excludes) ==
    [remove_punctuation : FlagInputs,
     filter_alpha : FlagInputs,
     case_sensitive : FlagInputs,
     remove_stop_words : FlagInputs,
     words_to_exclude : excludes]

OptionFields == OptionFieldsWith(ExcludeInputs)

\* A POST form: the option fields and the three source fields.
Form(opts, content, gutenberg_id, wiki_query) ==
    opts @@ [content |-> content,
             gutenberg_id |-> gutenberg_id,
             wiki_query |-> wiki_query]

NoResponse == [kind |-> "none"]

RemoteTexts == {<<>>, <<"a">>, <<"A", " ", "b">>, ScenarioText}

GutenbergResponses ==
    {[kind |-> "connection_error"], [kind |-> "http_error"]}
        \cup {[kind |-> "ok", text |-> t] : t \in RemoteTexts}

Page(page_id, has_extract, extract) ==
    [page_id |-> page_id, has_extract |-> has_extract, extract |-> extract]

WikiPages ==
    {Page("-1", FALSE, <<>>), Page("736", FALSE, <<>>)}
        \cup {Page("736", TRUE, t) : t \in RemoteTexts}

WikiResponses ==
    {[kind |-> "connection_error"], [kind |-> "http_error"], [kind |-> "bad_json"],
     [kind |-> "ok", pages |-> <<>>]}
        \cup {[kind |-> "ok", pages |-> <<p>>] : p \in WikiPages}
        \cup {[kind |-> "ok",
               pages |-> <<Page("736", TRUE, <<"b">>), Page("-1", FALSE, <<>>)>>]}

\* ------------------------------------------------------------------- state

VARIABLES
    pc,             \* "idle" between requests, "responded" after a handler
    route,          \* the handler that served the last request
    source,         \* post: request.form.get('source-select')
    pasted,         \* post: request.form.get('content')
    options,        \* the Analysis Options of the request
    outcome,        \* what the collaborators did: response / listing / read
    content,        \* the text handed to analyze (None after a fetch error)
    error,          \* post: fetch_content's error message
    calls,          \* the calls the handler made, in order
    an,             \* analyze's result and locals
    files,          \* examples: the sorted file list
    selected_file,  \* examples: the file chosen
    raised,         \* the exception that left the handler, if any
    rendered        \* the template rendered and the context that matters

vars == <<pc, route, source, pasted, options, outcome, content, error, calls, an,
          files, selected_file, raised, rendered>>

NoAnalysis ==
    [steps |-> <<>>, processed_words |-> <<>>, snapshots |-> <<>>,
     fell_back |-> {},
     counts |-> [word_count |-> -1, unique_word_count |-> -1,
                 char_count |-> -1, char_count_no_spaces |-> -1],
     chart_data |-> [before |-> <<>>, after |-> <<>>],
     zipf_data |-> [before |-> <<>>, after |-> <<>>]]

NoOutcome == [response |-> "none", listing |-> "none", read |-> "none"]

Render(template, err, echoed) ==
    [template |-> template, name |-> APP_NAME, error |-> err, content |-> echoed]

Init ==
    /\ pc = "idle"
    /\ route = "none"
    /\ source = NoneStr
    /\ pasted = None
    /\ options = DEFAULT_OPTIONS
    /\ outcome = NoOutcome
    /\ content = None
    /\ error = NoneStr
    /\ calls = <<>>
    /\ an = NoAnalysis
    /\ files = <<>>
    /\ selected_file = NoneStr
    /\ raised = NoneStr
    /\ rendered = Render("none", NoneStr, <<>>)

\* A handler that calls no collaborator and only renders a template.
Static(name, template) ==
    /\ pc = "idle"
    /\ pc' = "responded"
    /\ route' = name
    /\ source' = NoneStr
    /\ pasted' = None
    /\ options' = DEFAULT_OPTIONS
    /\ outcome' = NoOutcome
    /\ content' = None
    /\ error' = NoneStr
    /\ calls' = <<"render_template">>
    /\ an' = NoAnalysis
    /\ files' = <<>>
    /\ selected_file' = NoneStr
    /\ raised' = NoneStr
    /\ rendered' = Render(template, NoneStr, <<>>)

home == Static("home", "home.html")

about == Static("about", "about.html")

\* GET /post
post_get == Static("post_get", "post.html")

\* The POST branch of post, for one form and one answer of the remote site.
PostWith(src, form, response) ==
    LET opts == parse_options(form)
        fc == fetch_content(src, form, response)
    IN  /\ pc' = "responded"
        /\ route' = "post"
        /\ source' = src
        /\ pasted' = form.content
        /\ options' = opts
        /\ outcome' = [NoOutcome EXCEPT !.response =
                          IF response.kind = "ok" /\ src = "Wikipedia"
                          THEN IF response.pages = <<>>
                               THEN "no_pages"
                               ELSE IF Head(response.pages).page_id = "-1"
                               THEN "not_found"
                               ELSE "ok"
                          ELSE response.kind]
        /\ content' = fc.content
        /\ error' = fc.error
        /\ files' = <<>>
        /\ selected_file' = NoneStr
        /\ raised' = NoneStr
        /\ IF ErrorTruthy(fc.error)
           THEN /\ calls' = <<"fetch_content", "render_template">>
                /\ an' = NoAnalysis
                /\ rendered' = Render("post.html", fc.error, <<>>)
           ELSE /\ calls' = <<"fetch_content", "analyze", "render_template">>
                /\ an' = analyze(fc.content, opts)
                /\ rendered' = Render("post.html", NoneStr,
                                      IF src = "Paste" THEN fc.content ELSE <<>>)

\* POST /post
post ==
    /\ pc = "idle"
    /\ \/ \E opts \in OptionFields, text \in Texts :
           PostWith("Paste", Form(opts, text, NoneStr, NoneStr), NoResponse)
       \/ \E opts \in OptionFieldsWith(LongExcludeInputs), text \in LongTexts :
           PostWith("Paste", Form(opts, text, NoneStr, NoneStr), NoResponse)
       \/ \E src \in {"Upload", NoneStr}, opts \in OptionFields,
          text \in {None, <<>>, <<"A", " ", "b">>} :
           PostWith(src, Form(opts, text, NoneStr, NoneStr), NoResponse)
       \/ \E opts \in OptionFieldsWith({None, <<"A">>}), id \in {"84", NoneStr},
          response \in GutenbergResponses :
           PostWith("Gutenberg", Form(opts, None, id, NoneStr), response)
       \/ \E opts \in OptionFieldsWith({None, <<"A">>}), title \in {"API", NoneStr},
          response \in WikiResponses :
           PostWith("Wikipedia", Form(opts, None, NoneStr, title), response)

\* The file names the corpora directory may hold, in sorted order.
DirNames == <<"austen.txt", "melville.txt", "notes.md">>

\* f.endswith('.txt')
EndsWithTxt(f) == f \in {"austen.txt", "melville.txt", "missing.txt"}

\* sorted(f for f in os.listdir(corpora_dir) if f.endswith('.txt'))
SortedTxt(present) ==
    SelectSeq(DirNames, LAMBDA f : f \in present /\ EndsWithTxt(f))

ReadErrors == {<<"d","e","n","i","e","d">>, <<"N","o"," ","f","i","l","e">>}

FileTexts == {<<>>, <<"a", " ", "b">>, <<"A", ".">>}

ReadOk(text) == [ok |-> TRUE, text |-> text, message |-> <<>>]

ReadFailed(message) == [ok |-> FALSE, text |-> <<>>, message |-> message]

\* What opening and reading `f` can do when the directory holds `present`.
ReadOutcomes(listing, f) ==
    IF listing.kind = "ok" /\ f \in listing.present
    THEN {ReadOk(t) : t \in FileTexts} \cup {ReadFailed(m) : m \in ReadErrors}
    ELSE {ReadFailed(m) : m \in ReadErrors}

Listings ==
    {[kind |-> "FileNotFoundError", present |-> {}],
     [kind |-> "PermissionError", present |-> {}]}
        \cup {[kind |-> "ok", present |-> p] : p \in SUBSET Range(DirNames)}

NoArgs ==
    [remove_punctuation |-> NoneStr, filter_alpha |-> NoneStr,
     case_sensitive |-> NoneStr, remove_stop_words |-> NoneStr,
     words_to_exclude |-> None, file |-> NoneStr]

\* GET /examples, for one query string, one state of the corpora directory
\* and one outcome of reading the selected file.
ExamplesWith(args, listing, read) ==
    LET fs == IF listing.kind = "ok" THEN SortedTxt(listing.present) ELSE <<>>
        sel == IF args.file # NoneStr
               THEN args.file
               ELSE IF fs # <<>> THEN fs[1] ELSE NoneStr
        opts == IF args # NoArgs THEN parse_options(args) ELSE DEFAULT_OPTIONS
        text == ReadContent(sel, read)
        opened == sel # NoneStr /\ sel # ""
    IN  /\ pc' = "responded"
        /\ route' = "examples"
        /\ source' = NoneStr
        /\ pasted' = None
        /\ error' = NoneStr
        /\ IF listing.kind \notin {"ok", "FileNotFoundError"}
           THEN /\ raised' = listing.kind
                /\ outcome' = [NoOutcome EXCEPT !.listing = listing.kind]
                /\ options' = DEFAULT_OPTIONS
                /\ files' = <<>>
                /\ selected_file' = NoneStr
                /\ content' = None
                /\ calls' = <<"listdir">>
                /\ an' = NoAnalysis
                /\ rendered' = Render("500", NoneStr, <<>>)
           ELSE /\ raised' = NoneStr
                /\ outcome' = [NoOutcome EXCEPT
                                  !.listing = listing.kind,
                                  !.read = IF ~opened THEN "none"
                                           ELSE IF read.ok THEN "ok"
                                           ELSE "failed"]
                /\ options' = opts
                /\ files' = fs
                /\ selected_file' = sel
                /\ content' = text
                /\ calls' = <<"listdir">>
                            \o (IF opened THEN <<"open">> ELSE <<>>)
                            \o <<"analyze", "render_template">>
                /\ an' = analyze(text, opts)
                /\ rendered' = Render("examples.html", NoneStr, <<>>)

\* GET /examples
examples ==
    /\ pc = "idle"
    /\ \E listing \in Listings,
       file \in {NoneStr, "", "austen.txt", "notes.md", "missing.txt"},
       opts \in OptionFieldsWith({None, <<"A">>}) :
        LET args == opts @@ [file |-> file]
            fs == IF listing.kind = "ok" THEN SortedTxt(listing.present) ELSE <<>>
            sel == IF file # NoneStr
                   THEN file
                   ELSE IF fs # <<>> THEN fs[1] ELSE NoneStr
        IN  IF listing.kind \in {"ok", "FileNotFoundError"}
               /\ sel # NoneStr /\ sel # ""
            THEN \E read \in ReadOutcomes(listing, sel) :
                     ExamplesWith(args, listing, read)
            ELSE ExamplesWith(args, listing, ReadFailed(<<>>))

\* The response is sent and the request's locals are dropped: nothing of a
\* request outlives it.
finish ==
    /\ pc = "responded"
    /\ pc' = "idle"
    /\ route' = "none"
    /\ source' = NoneStr
    /\ pasted' = None
    /\ options' = DEFAULT_OPTIONS
    /\ outcome' = NoOutcome
    /\ content' = None
    /\ error' = NoneStr
    /\ calls' = <<>>
    /\ an' = NoAnalysis
    /\ files' = <<>>
    /\ selected_file' = NoneStr
    /\ raised' = NoneStr
    /\ rendered' = Render("none", NoneStr, <<>>)

Next == home \/ about \/ post_get \/ post \/ examples \/ finish

Spec == Init /\ [][Next]_vars

\* ------------------------------------------------------------ properties

\* analyze ran in the request that was just served.
Analyzed == "analyze" \in Range(calls)

Labels(steps) == AsSeq([i \in DOMAIN steps |-> steps[i].label])

FixedOrder ==
    <<"raw", "cleaned_punct", "cleaned_alpha", "normalized",
      "before_stop_words", "after_stop_words", "final">>

\* Whether the options include the step with this label.
Included(label, o) ==
    CASE label = "cleaned_punct" -> o.remove_punctuation
      [] label = "cleaned_alpha" -> o.filter_alpha
      [] label = "normalized" -> ~o.case_sensitive
      [] label = "after_stop_words" -> o.remove_stop_words
      [] OTHER -> TRUE

\* The function the step with this label must carry.
FunctionOf(label, o) ==
    CASE label = "raw" -> "tokenize_step"
      [] label = "cleaned_punct" -> "remove_punctuation_step"
      [] label = "cleaned_alpha" -> "filter_alpha_step"
      [] label = "normalized" -> "lowercase_step"
      [] label = "before_stop_words" -> "identity"
      [] label = "after_stop_words" -> "remove_stop_words_step"
      [] label = "final" ->
             IF o.words_to_exclude # <<>> THEN "exclusion_step" ELSE "identity"

\* C1: the step list build_pipeline returns is the fixed order raw,
\* cleaned_punct, cleaned_alpha, normalized, before_stop_words,
\* after_stop_words, final, restricted to the steps the options include,
\* each label with its own function; only the exclusion step carries words.
C1_FixedStepOrder ==
    Analyzed =>
        /\ Labels(an.steps)
               = SelectSeq(FixedOrder, LAMBDA l : Included(l, options))
        /\ \A i \in DOMAIN an.steps :
               /\ an.steps[i].fn = FunctionOf(an.steps[i].label, options)
               /\ (an.steps[i].words # <<>>
                      => an.steps[i].fn = "exclusion_step")

\* All seven steps are built, in a pipeline that ran on words.
C1_Witness ==
    /\ Analyzed
    /\ Len(an.steps) = 7
    /\ an.steps[7].fn = "exclusion_step"
    /\ an.processed_words # <<>>

\* C2: the step list begins with the tokenizer, ends with the step labelled
\* final and holds before_stop_words and final once each; after the run both
\* are keys of the snapshot map and analyze never uses the default of
\* snapshots.get.
C2_BothSnapshotsPresent ==
    Analyzed =>
        /\ an.steps # <<>>
        /\ an.steps[1].fn = "tokenize_step"
        /\ an.steps[Len(an.steps)].label = "final"
        /\ \A l \in {"before_stop_words", "final"} :
               /\ Cardinality({i \in DOMAIN an.steps : an.steps[i].label = l}) = 1
               /\ l \in DOMAIN an.snapshots
        /\ an.fell_back = {}

\* The shortest list (tokenizer and the two identity steps) ran on words.
C2_Witness ==
    /\ Analyzed
    /\ Len(an.steps) = 3
    /\ options.words_to_exclude = <<>>
    /\ an.snapshots["final"] # <<>>

\* C3: for the empty text analyze returns zero for the four counts and empty
\* lists for both chart series and both Zipf series.
C3_EmptyText ==
    Analyzed /\ content = <<>> =>
        /\ an.counts.word_count = 0
        /\ an.counts.unique_word_count = 0
        /\ an.counts.char_count = 0
        /\ an.counts.char_count_no_spaces = 0
        /\ an.chart_data.before = <<>>
        /\ an.chart_data.after = <<>>
        /\ an.zipf_data.before = <<>>
        /\ an.zipf_data.after = <<>>

\* The empty text went through the longest pipeline without punctuation
\* removal.
C3_Witness ==
    /\ Analyzed
    /\ content = <<>>
    /\ ~options.remove_punctuation
    /\ options.remove_stop_words
    /\ options.words_to_exclude # <<>>

\* The maximal comma-free pieces of s.
CommaPieces(s) ==
    {SubSeq(s, p[1], p[2]) : p \in
        {q \in (1..(Len(s) + 1)) \X (0..Len(s)) :
            /\ q[1] <= q[2] + 1
            /\ (q[1] = 1 \/ s[q[1] - 1] = ",")
            /\ (q[2] = Len(s) \/ s[q[2] + 1] = ",")
            /\ \A m \in q[1]..q[2] : s[m] # ","}}

\* The sequence the last step received.
FinalInput ==
    IF options.remove_stop_words
    THEN an.snapshots["after_stop_words"]
    ELSE an.snapshots["before_stop_words"]

\* C4: with words_to_exclude set, the final sequence is the input of the
\* last step without the tokens that equal, ignoring case, a comma-separated
\* piece of words_to_exclude trimmed of whitespace, the others in their
\* order; "the, sat" on [the, cat, sat, the, dog, sat] leaves [cat, dog],
\* two unique words.
C4_ExclusionFilter ==
    /\ Analyzed /\ options.words_to_exclude # <<>> =>
           LET pieces == CommaPieces(options.words_to_exclude)
               Dropped(t) == \E w \in pieces : Lower(Strip(w)) = Lower(t)
           IN  an.processed_words
                   = SelectSeq(FinalInput, LAMBDA t : ~Dropped(t))
    /\ /\ Analyzed
       /\ content = ScenarioText
       /\ options = [DEFAULT_OPTIONS EXCEPT !.words_to_exclude = ScenarioExclude]
       => /\ an.processed_words = <<<<"c", "a", "t">>, <<"d", "o", "g">>>>
          /\ an.counts.unique_word_count = 2

\* The scenario ran: "the, sat" dropped four of the six tokens.
C4_Witness ==
    /\ Analyzed
    /\ content = ScenarioText
    /\ options = [DEFAULT_OPTIONS EXCEPT !.words_to_exclude = ScenarioExclude]
    /\ Len(FinalInput) = 6
    /\ Len(an.processed_words) = 2

\* C5: the final sequence run_pipeline returns is the snapshot stored under
\* final, so word_count and unique_word_count are the length and the number
\* of distinct values of the sequence the after series are computed from.
C5_FinalIsLastSnapshot ==
    Analyzed =>
        /\ "final" \in DOMAIN an.snapshots
        /\ an.processed_words = an.snapshots["final"]
        /\ an.counts.word_count = Len(an.snapshots["final"])
        /\ an.counts.unique_word_count
               = Cardinality(Range(an.snapshots["final"]))
        /\ Len(an.zipf_data.after) = an.counts.unique_word_count
        /\ \A i \in DOMAIN an.chart_data.after :
               an.chart_data.after[i].word \in Range(an.processed_words)

\* The last steps dropped some words and kept others.
C5_Witness ==
    /\ Analyzed
    /\ an.processed_words # <<>>
    /\ Len(an.processed_words) < Len(an.snapshots["before_stop_words"])
    /\ Cardinality(Range(an.processed_words)) < Len(an.processed_words)

NonIncreasing(series) ==
    \A i \in 1..(Len(series) - 1) : series[i].count >= series[i + 1].count

CappedLength(words) ==
    IF Cardinality(Range(words)) < TopN
    THEN Cardinality(Range(words))
    ELSE TopN

\* C6: each chart series has min(50, distinct words of its snapshot)
\* entries, with counts in non-increasing order.
C6_ChartSeries ==
    Analyzed =>
        /\ Len(an.chart_data.before)
               = CappedLength(an.snapshots["before_stop_words"])
        /\ Len(an.chart_data.after) = CappedLength(an.snapshots["final"])
        /\ NonIncreasing(an.chart_data.before)
        /\ NonIncreasing(an.chart_data.after)

\* A snapshot with more than 50 distinct words was cut to 50, and the counts
\* are not all equal.
C6_Witness ==
    /\ Analyzed
    /\ Cardinality(Range(an.snapshots["final"])) > TopN
    /\ Len(an.chart_data.after) = TopN
    /\ an.chart_data.after[1].count > an.chart_data.after[TopN].count

ZipfShape(series, words) ==
    /\ Len(series) = Cardinality(Range(words))
    /\ \A i \in DOMAIN series : series[i].rank = i
    /\ \A i \in DOMAIN series : series[1].frequency >= series[i].frequency

\* C7: each Zipf series has one entry per distinct word of its snapshot (the
\* after series as many as unique_word_count), ranks 1..n each used once,
\* and no frequency above that of rank 1.
C7_ZipfSeries ==
    Analyzed =>
        /\ ZipfShape(an.zipf_data.before, an.snapshots["before_stop_words"])
        /\ ZipfShape(an.zipf_data.after, an.snapshots["final"])
        /\ Len(an.zipf_data.after) = an.counts.unique_word_count

\* Two series of different lengths, with frequencies that differ.
C7_Witness ==
    /\ Analyzed
    /\ Len(an.zipf_data.after) >= 2
    /\ Len(an.zipf_data.before) > Len(an.zipf_data.after)
    /\ an.zipf_data.after[1].frequency
           > an.zipf_data.after[Len(an.zipf_data.after)].frequency

StartsWith(s, prefix) ==
    Len(s) >= Len(prefix) /\ SubSeq(s, 1, Len(prefix)) = prefix

\* C8 as stated: any failure to list the directory yields an empty file list
\* and the page is rendered; a failed read puts the error string through
\* analyze.
C8_AnyListingFailure ==
    route = "examples" /\ outcome.listing \notin {"ok", "none"} =>
        /\ raised = NoneStr
        /\ files = <<>>
        /\ rendered.template = "examples.html"

\* C8, amended: a missing directory (FileNotFoundError) yields an empty file
\* list and the page is rendered, while any other listing error leaves the
\* handler unhandled; when the listing did not raise, a failed read of the
\* selected file raises nothing: content is "Error reading file: " and the
\* message, and analyze ran on it, so the character count is that string's.
C8_MissingDirectoryOnly ==
    route = "examples" =>
        /\ outcome.listing = "FileNotFoundError" =>
               /\ raised = NoneStr
               /\ files = <<>>
               /\ rendered.template = "examples.html"
        /\ outcome.listing \notin {"ok", "FileNotFoundError"} =>
               /\ raised = outcome.listing
               /\ ~Analyzed
        /\ outcome.read = "failed" =>
               /\ raised = NoneStr
               /\ rendered.template = "examples.html"
               /\ rendered.error = NoneStr
               /\ StartsWith(content, ErrorPrefix)
               /\ calls = <<"listdir", "open", "analyze", "render_template">>
               /\ an.steps # <<>>
               /\ an.counts.char_count = Len(content)

\* The directory is missing and the file asked for cannot be read.
C8_Witness ==
    /\ route = "examples"
    /\ outcome.listing = "FileNotFoundError"
    /\ outcome.read = "failed"
    /\ selected_file = "missing.txt"
    /\ an.counts.char_count > Len(ErrorPrefix)

ErrorOutcomes ==
    {"http_error", "connection_error", "not_found", "no_pages", "bad_json"}

\* C9: in a POST to post, analyze is called only after fetch_content, with
\* no error and a text as content; for Gutenberg and Wikipedia an HTTP
\* error, a network error or a missing article gives (None, a non-empty
\* message) and the error is rendered without analyze; every other source,
\* a missing one too, is analysed as the pasted text, '' when absent.
C9_AnalyzeOnlyAfterFetch ==
    route = "post" =>
        /\ calls[1] = "fetch_content"
        /\ Analyzed =>
               /\ calls[2] = "analyze"
               /\ error = NoneStr
               /\ content # None
        /\ source \in {"Gutenberg", "Wikipedia"}
               /\ outcome.response \in ErrorOutcomes =>
               /\ content = None
               /\ error \notin {NoneStr, ""}
               /\ ~Analyzed
               /\ rendered.error = error
        /\ source \notin {"Gutenberg", "Wikipedia"} =>
               /\ Analyzed
               /\ error = NoneStr
               /\ content = IF pasted = None THEN <<>> ELSE pasted

\* The encyclopedia answered that the article does not exist.
C9_Witness ==
    /\ route = "post"
    /\ source = "Wikipedia"
    /\ outcome.response = "not_found"
    /\ rendered.error = "Wikipedia article not found"

ExcludeChoices == {<<>>, <<"A">>, ScenarioExclude}

\* C10: the before series are those of every run on the same text whose
\* options agree on remove_punctuation, filter_alpha and case_sensitive,
\* whatever remove_stop_words and words_to_exclude are; without stop-word
\* removal and exclusion, before and after are equal.
C10_BeforeIndependent ==
    Analyzed =>
        /\ \A rsw \in BOOLEAN, excl \in ExcludeChoices :
               LET other == analyze(content,
                                    [options EXCEPT
                                        !.remove_stop_words = rsw,
                                        !.words_to_exclude = excl])
               IN  /\ other.chart_data.before = an.chart_data.before
                   /\ other.zipf_data.before = an.zipf_data.before
        /\ ~options.remove_stop_words /\ options.words_to_exclude = <<>> =>
               /\ an.chart_data.after = an.chart_data.before
               /\ an.zipf_data.after = an.zipf_data.before

\* Stop-word removal and exclusion both ran and changed the series.
C10_Witness ==
    /\ Analyzed
    /\ options.remove_stop_words
    /\ options.words_to_exclude # <<>>
    /\ an.snapshots["after_stop_words"] # an.snapshots["before_stop_words"]
    /\ an.snapshots["final"] # an.snapshots["after_stop_words"]
    /\ an.chart_data.after # <<>>

====
